---- MODULE Spec2Model ----
(***************************************************************************)
(* Solar ROI Calculator (src/app.py): the Streamlit script as a state      *)
(* machine.  The state is the script's module-level names after a run:     *)
(* the reference tables, the widget values, the values the script derives  *)
(* from them, and the result record of the run in which the button was     *)
(* pressed.  Every widget edit is one run of the script.                   *)
(*                                                                         *)
(* Python floats are IEEE-754 binary64.  A float is modelled exactly, as   *)
(* [m |-> mantissa, e |-> exponent] with value m * 2^e, m an odd natural   *)
(* of at most 53 bits (or zero), held as little-endian limbs of 15 bits.   *)
(* Every arithmetic operation computes the exact result and rounds it to   *)
(* nearest, ties to even, as the hardware does.  All floats of this        *)
(* program are non-negative and far from the overflow and subnormal        *)
(* ranges, so sign, infinities and subnormals are not represented.         *)
(***************************************************************************)
EXTENDS Integers, Sequences, FiniteSets, TLC

(***************************************************************************)
(* Natural numbers of any size, as little-endian sequences of limbs        *)
(* (no most-significant zero limb; zero is the empty sequence).            *)
(***************************************************************************)
Base == 2^15

Limb(a, i) == IF i <= Len(a) THEN a[i] ELSE 0

RECURSIVE BigTrim(_)
BigTrim(a) ==
    IF a = <<>> THEN a
    ELSE IF a[Len(a)] = 0 THEN BigTrim(SubSeq(a, 1, Len(a) - 1)) ELSE a

RECURSIVE BigFromNat(_)
BigFromNat(n) == IF n = 0 THEN <<>> ELSE <<n % Base>> \o BigFromNat(n \div Base)

RECURSIVE BigAddFrom(_, _, _, _)
BigAddFrom(a, b, i, c) ==
    IF i > Len(a) /\ i > Len(b)
    THEN (IF c = 0 THEN <<>> ELSE <<c>>)
    ELSE LET s == Limb(a, i) + Limb(b, i) + c
         IN  <<s % Base>> \o BigAddFrom(a, b, i + 1, s \div Base)

BigAdd(a, b) == BigAddFrom(a, b, 1, 0)

RECURSIVE BigSubFrom(_, _, _, _)
BigSubFrom(a, b, i, br) ==
    IF i > Len(a) THEN <<>>
    ELSE LET d == a[i] - Limb(b, i) - br
         IN  <<(d + Base) % Base>> \o BigSubFrom(a, b, i + 1, IF d < 0 THEN 1 ELSE 0)

BigSub(a, b) == BigTrim(BigSubFrom(a, b, 1, 0))

RECURSIVE BigCmpAt(_, _, _)
BigCmpAt(a, b, i) ==
    IF i = 0 THEN 0
    ELSE IF a[i] # b[i] THEN (IF a[i] < b[i] THEN -1 ELSE 1)
    ELSE BigCmpAt(a, b, i - 1)

BigCmp(a, b) ==
    IF Len(a) # Len(b) THEN (IF Len(a) < Len(b) THEN -1 ELSE 1)
    ELSE BigCmpAt(a, b, Len(a))

RECURSIVE BigMulSmallFrom(_, _, _, _)
BigMulSmallFrom(a, k, i, c) ==
    IF i > Len(a)
    THEN (IF c = 0 THEN <<>> ELSE <<c>>)
    ELSE LET p == a[i] * k + c
         IN  <<p % Base>> \o BigMulSmallFrom(a, k, i + 1, p \div Base)

BigMulSmall(a, k) == IF k = 0 THEN <<>> ELSE BigMulSmallFrom(a, k, 1, 0)

BigShlLimbs(a, n) == IF a = <<>> THEN a ELSE [i \in 1..n |-> 0] \o a

RECURSIVE BigMulFrom(_, _, _)
BigMulFrom(a, b, j) ==
    IF j > Len(b) THEN <<>>
    ELSE BigAdd(BigShlLimbs(BigMulSmall(a, b[j]), j - 1), BigMulFrom(a, b, j + 1))

BigMul(a, b) == BigMulFrom(a, b, 1)

BigShl(a, k) == BigShlLimbs(BigMulSmall(a, 2^(k % 15)), k \div 15)

RECURSIVE BigDivSmallAt(_, _, _, _)
BigDivSmallAt(a, d, i, r) ==
    IF i = 0 THEN [q |-> <<>>, r |-> r]
    ELSE LET cur  == r * Base + a[i]
             rest == BigDivSmallAt(a, d, i - 1, cur % d)
         IN  [q |-> rest.q \o <<cur \div d>>, r |-> rest.r]

BigDivSmall(a, d) ==
    LET dm == BigDivSmallAt(a, d, Len(a), 0)
    IN  [q |-> BigTrim(dm.q), r |-> IF dm.r = 0 THEN <<>> ELSE <<dm.r>>]

BigShr(a, k) ==
    LET w == k \div 15
    IN  IF w >= Len(a) THEN <<>>
        ELSE BigDivSmall(SubSeq(a, w + 1, Len(a)), 2^(k % 15)).q

RECURSIVE BitLenSmall(_)
BitLenSmall(n) == IF n = 0 THEN 0 ELSE 1 + BitLenSmall(n \div 2)

BigBitLen(a) == IF a = <<>> THEN 0 ELSE (Len(a) - 1) * 15 + BitLenSmall(a[Len(a)])

RECURSIVE TzSmall(_)
TzSmall(n) == IF n % 2 = 1 THEN 0 ELSE 1 + TzSmall(n \div 2)

RECURSIVE BigTzFrom(_, _)
BigTzFrom(a, i) == IF a[i] # 0 THEN (i - 1) * 15 + TzSmall(a[i]) ELSE BigTzFrom(a, i + 1)

RECURSIVE QDigit(_, _, _, _)
QDigit(r, d, lo, hi) ==
    IF lo = hi THEN lo
    ELSE LET mid == (lo + hi + 1) \div 2
         IN  IF BigCmp(BigMulSmall(d, mid), r) <= 0
             THEN QDigit(r, d, mid, hi)
             ELSE QDigit(r, d, lo, mid - 1)

\* Long division by a divisor of two or more limbs whose top limb is at least
\* Base/2: the quotient digit is at most 2 below its two-limb estimate.
RECURSIVE BigDivAt(_, _, _, _)
BigDivAt(n, d, i, r) ==
    IF i = 0 THEN [q |-> <<>>, r |-> r]
    ELSE LET cur  == BigTrim(<<n[i]>> \o r)
             t    == Len(d)
             est  == (Limb(cur, t + 1) * Base + Limb(cur, t)) \div d[t]
             hi   == IF est > Base - 1 THEN Base - 1 ELSE est
             lo   == IF hi >= 2 THEN hi - 2 ELSE 0
             qd   == QDigit(cur, d, lo, hi)
             rest == BigDivAt(n, d, i - 1, BigSub(cur, BigMulSmall(d, qd)))
         IN  [q |-> rest.q \o <<qd>>, r |-> rest.r]

BigDivMod(n, d) ==
    IF Len(d) = 1 THEN BigDivSmall(n, d[1])
    ELSE LET sh == 15 - BitLenSmall(d[Len(d)])
             nn == BigShl(n, sh)
             dm == BigDivAt(nn, BigShl(d, sh), Len(nn), <<>>)
         IN  [q |-> BigTrim(dm.q), r |-> BigShr(dm.r, sh)]

(***************************************************************************)
(* binary64 values and correctly rounded arithmetic.                       *)
(***************************************************************************)
Zero == [m |-> <<>>, e |-> 0]

FNorm(m, e) ==
    IF m = <<>> THEN Zero
    ELSE LET tz == BigTzFrom(m, 1) IN [m |-> BigShr(m, tz), e |-> e + tz]

FRound(m, e, sticky) ==
    LET L == BigBitLen(m)
    IN  IF L <= 53 THEN FNorm(m, e)
        ELSE LET s    == L - 53
                 q    == BigShr(m, s)
                 rem  == BigSub(m, BigShl(q, s))
                 c    == BigCmp(rem, BigShl(<<1>>, s - 1))
                 up   == c > 0 \/ (c = 0 /\ (sticky \/ q[1] % 2 = 1))
             IN  FNorm(IF up THEN BigAdd(q, <<1>>) ELSE q, e + s)

FFromInt(n) == FNorm(BigFromNat(n), 0)

MinInt(x, y) == IF x < y THEN x ELSE y

FAdd(a, b) ==
    LET e == MinInt(a.e, b.e)
    IN  FRound(BigAdd(BigShl(a.m, a.e - e), BigShl(b.m, b.e - e)), e, FALSE)

FSub(a, b) ==
    LET e == MinInt(a.e, b.e)
    IN  FRound(BigSub(BigShl(a.m, a.e - e), BigShl(b.m, b.e - e)), e, FALSE)

FMul(a, b) == FRound(BigMul(a.m, b.m), a.e + b.e, FALSE)

ZeroDivisionError == [exception |-> "ZeroDivisionError"]

Raised(x) == "exception" \in DOMAIN x

\* Python's true division: raises on a zero divisor.
FDiv(a, b) ==
    IF b.m = <<>> THEN ZeroDivisionError
    ELSE IF a.m = <<>> THEN Zero
    ELSE LET d  == 55 + BigBitLen(b.m) - BigBitLen(a.m)
             k  == IF d > 0 THEN d ELSE 0
             dm == BigDivMod(BigShl(a.m, k), b.m)
         IN  FRound(dm.q, a.e - b.e - k, dm.r # <<>>)

FCmp(a, b) ==
    LET e == MinInt(a.e, b.e)
    IN  BigCmp(BigShl(a.m, a.e - e), BigShl(b.m, b.e - e))

FMin(a, b) == IF FCmp(b, a) < 0 THEN b ELSE a

One == FFromInt(1)

Hundred == FFromInt(100)

Thousand == FFromInt(1000)

\* The float a decimal literal with two places denotes: the binary64 nearest h/100.
Dec(h) == FDiv(FFromInt(h), Hundred)

(***************************************************************************)
(* Constants of the script.                                                *)
(***************************************************************************)
BASE_YIELD == 950
FIXED_COST == 2500
COST_PER_PANEL == 350
BATTERY_COST == 4000

\* Mutant: a battery that adds nothing to self-use.
BatteryBoostNone == Zero

BATTERY_SELF_USE_BOOST == Dec(25)

\* Mutant: the six-direction table of earlier revisions (South-East and
\* South-West at the full 1.0).
LegacyOrientationFactors ==
    [d \in {"South", "South-East", "South-West", "East", "West",
            "North-East", "North-West", "North"} |->
        CASE d \in {"South", "South-East", "South-West"} -> One
          [] d \in {"East", "West"} -> Dec(85)
          [] d \in {"North-East", "North-West"} -> Dec(70)
          [] d = "North" -> Dec(60)]

ORIENTATION_FACTORS ==
    [d \in {"South", "South-East", "South-West", "East", "West",
            "North-East", "North-West", "North"} |->
        CASE d = "South" -> One
          [] d \in {"South-East", "South-West"} -> Dec(95)
          [] d \in {"East", "West"} -> Dec(85)
          [] d \in {"North-East", "North-West"} -> Dec(70)
          [] d = "North" -> Dec(60)]

roof_options ==
    <<"Select your roof direction", "South", "South-East", "South-West", "East",
      "West", "North-East", "North-West", "North">>

(***************************************************************************)
(* Text.  A postcode is a sequence of one-character strings.               *)
(***************************************************************************)
LowerLetters ==
    <<"a", "b", "c", "d", "e", "f", "g", "h", "i", "j", "k", "l", "m",
      "n", "o", "p", "q", "r", "s", "t", "u", "v", "w", "x", "y", "z">>

UpperLetters ==
    <<"A", "B", "C", "D", "E", "F", "G", "H", "I", "J", "K", "L", "M",
      "N", "O", "P", "Q", "R", "S", "T", "U", "V", "W", "X", "Y", "Z">>

\* str.strip() removes these from both ends; str.replace(" ", "") only the space.
Whitespace == {" ", "\t"}

UpperChar(c) ==
    IF \E i \in 1..26 : LowerLetters[i] = c
    THEN UpperLetters[CHOOSE i \in 1..26 : LowerLetters[i] = c]
    ELSE c

\* Mutant: the text compared as typed.
StrAsTyped(s) == s

StrUpper(s) == [i \in 1..Len(s) |-> UpperChar(s[i])]

RECURSIVE StrStrip(_)
StrStrip(s) ==
    IF s = <<>> THEN s
    ELSE IF s[1] \in Whitespace THEN StrStrip(Tail(s))
    ELSE IF s[Len(s)] \in Whitespace THEN StrStrip(SubSeq(s, 1, Len(s) - 1))
    ELSE s

IsSpace(c) == c = " "

IsNotSpace(c) == ~IsSpace(c)

StrRemoveSpaces(s) == SelectSeq(s, IsNotSpace)

IsAZ(c) == \E i \in 1..26 : UpperLetters[i] = c

\* Mutant: the pattern [A-Z] without its repetition.
MatchOneLetter(s) == IF s = <<>> \/ ~IsAZ(s[1]) THEN <<>> ELSE SubSeq(s, 1, 1)

\* re.match(r'^([A-Z]{1,2})', s): group 1, or the empty sequence for no match.
MatchPrefix(s) ==
    IF s = <<>> \/ ~IsAZ(s[1]) THEN <<>>
    ELSE IF Len(s) >= 2 /\ IsAZ(s[2]) THEN SubSeq(s, 1, 2)
    ELSE SubSeq(s, 1, 1)

(***************************************************************************)
(* Reference tables.  A loader returns None (file absent or unreadable)    *)
(* or the rows of the CSV file.                                            *)
(***************************************************************************)
NoTable == [loaded |-> FALSE, rows |-> <<>>]

Table(rows) == [loaded |-> TRUE, rows |-> rows]

\* DataFrame[DataFrame[col] == key]: the rows whose column equals the key.
RowsWhere(df, col, key) ==
    LET Keep(r) == r[col] = key IN SelectSeq(df.rows, Keep)

\* A column that does not hold numbers throughout is read as text (dtype
\* object): each of its cells is the sequence of characters of the file.
TextTable(rows, cols) == [loaded |-> TRUE, rows |-> rows, object |-> cols]

ObjectColumns(df) == IF "object" \in DOMAIN df THEN df.object ELSE {}

\* A column the file does not have is a field the rows do not have.
HasColumn(df, col) == \A i \in 1..Len(df.rows) : col \in DOMAIN df.rows[i]

Digits == <<"0", "1", "2", "3", "4", "5", "6", "7", "8", "9">>

IsDigit(c) == \E i \in 1..10 : Digits[i] = c

DigitValue(c) == (CHOOSE i \in 1..10 : Digits[i] = c) - 1

RECURSIVE DigitsValue(_)
DigitsValue(s) ==
    IF s = <<>> THEN 0
    ELSE 10 * DigitsValue(SubSeq(s, 1, Len(s) - 1)) + DigitValue(s[Len(s)])

IsDigits(s) == s # <<>> /\ \A i \in 1..Len(s) : IsDigit(s[i])

\* int(text) accepts decimal digits between optional whitespace (signs and
\* underscores are not modelled) and raises ValueError on any other text.
IsIntLiteral(s) == IsDigits(StrStrip(s))

\* float(text) accepts digits with an optional fraction part (signs, exponents,
\* "inf" and "nan" are not modelled) and raises ValueError on any other text.
IsFloatLiteral(s) ==
    LET u == StrStrip(s)
        dots == {i \in 1..Len(u) : u[i] = "."}
    IN  \/ IsDigits(u)
        \/ /\ Cardinality(dots) = 1
           /\ Len(u) >= 2
           /\ \A i \in 1..Len(u) : i \in dots \/ IsDigit(u[i])

IsDot(c) == c = "."

IsNotDot(c) == ~IsDot(c)

RECURSIVE PowerOfTen(_)
PowerOfTen(n) == IF n = 0 THEN 1 ELSE 10 * PowerOfTen(n - 1)

\* The binary64 nearest the decimal: the digits as an integer, divided by the
\* power of ten of the fraction's length (both exact, one rounding).
ParseFloat(s) ==
    LET u == StrStrip(s)
        dots == {i \in 1..Len(u) : u[i] = "."}
        places == IF dots = {} THEN 0 ELSE Len(u) - (CHOOSE i \in dots : TRUE)
    IN  FDiv(FFromInt(DigitsValue(SelectSeq(u, IsNotDot))), FFromInt(PowerOfTen(places)))

\* int(cell) and float(cell) of a cell of column col.
CellInt(df, col, cell) ==
    IF col \in ObjectColumns(df) THEN DigitsValue(StrStrip(cell)) ELSE cell

CellFloat(df, col, cell) ==
    IF col \in ObjectColumns(df) THEN ParseFloat(cell) ELSE cell

KeyError == [exception |-> "KeyError"]

ValueError == [exception |-> "ValueError"]

NoException == [passed |-> TRUE]

\* What the lookup of key in column keycol raises, if anything: KeyError from
\* df[keycol] or from row[c] for a column the table lacks, ValueError from the
\* conversion of the matched row's cell of column numcol.
\* Whether int(s) or float(s), the conversion named, accepts the text.
IsLiteral(conversion, s) ==
    IF conversion = "int" THEN IsIntLiteral(s) ELSE IsFloatLiteral(s)

LookupRaises(df, keycol, key, cols, numcol, conversion) ==
    IF ~df.loaded THEN NoException
    ELSE IF ~HasColumn(df, keycol) THEN KeyError
    ELSE LET result == RowsWhere(df, keycol, key)
         IN  IF result = <<>> THEN NoException
             ELSE IF \E i \in 1..Len(cols) : cols[i] \notin DOMAIN result[1]
             THEN KeyError
             ELSE IF /\ numcol \in ObjectColumns(df)
                     /\ ~IsLiteral(conversion, result[1][numcol])
             THEN ValueError
             ELSE NoException

VARIABLES regional_df, supplier_df, home_type_df

load_regional_yields == regional_df

load_supplier_data == supplier_df

load_home_type_data == home_type_df

UKAverage == <<"UK Average", BASE_YIELD>>

\* The exception a call raises, or NoException: the table is read only for a
\* postcode with an area prefix.
RegionalYieldRaises(pc) ==
    IF pc = <<>> \/ StrStrip(pc) = <<>> THEN NoException
    ELSE IF MatchPrefix(StrRemoveSpaces(StrUpper(StrStrip(pc)))) = <<>> THEN NoException
    ELSE LookupRaises(load_regional_yields, "prefix",
                      MatchPrefix(StrRemoveSpaces(StrUpper(StrStrip(pc)))),
                      <<"region", "yield">>, "yield", "int")

get_regional_yield(pc) ==
    IF Raised(RegionalYieldRaises(pc)) THEN RegionalYieldRaises(pc)
    ELSE IF pc = <<>> \/ StrStrip(pc) = <<>> THEN UKAverage
    ELSE LET postcode_clean == StrRemoveSpaces(StrUpper(StrStrip(pc)))
             prefix         == MatchPrefix(postcode_clean)
         IN  IF prefix = <<>> THEN UKAverage
             ELSE IF ~load_regional_yields.loaded THEN UKAverage
             ELSE LET result == RowsWhere(load_regional_yields, "prefix", prefix)
                  IN  IF result # <<>>
                      THEN <<result[1].region,
                             CellInt(load_regional_yields, "yield", result[1].yield)>>
                      ELSE UKAverage

DefaultSegRate == FFromInt(21)

MinimumSegRate == FFromInt(4)

SegRateRaises(supplier_name) ==
    LookupRaises(load_supplier_data, "supplier", supplier_name,
                 <<"seg_rate">>, "seg_rate", "float")

get_seg_rate_for_supplier(supplier_name) ==
    IF Raised(SegRateRaises(supplier_name)) THEN SegRateRaises(supplier_name)
    ELSE IF ~load_supplier_data.loaded THEN DefaultSegRate
    ELSE LET result == RowsWhere(load_supplier_data, "supplier", supplier_name)
         IN  IF result # <<>>
             THEN CellFloat(load_supplier_data, "seg_rate", result[1].seg_rate)
             ELSE DefaultSegRate

\* Mutant: the slider's minimum as the fallback.
MinPanelsFallbackSliderMinimum(ht) ==
    IF ~load_home_type_data.loaded THEN 4
    ELSE LET result == RowsWhere(load_home_type_data, "home_type", ht)
         IN  IF result # <<>> THEN result[1].min_panels ELSE 4

MinPanelsRaises(ht) ==
    LookupRaises(load_home_type_data, "home_type", ht,
                 <<"min_panels">>, "min_panels", "int")

get_min_panels_for_home_type(ht) ==
    IF Raised(MinPanelsRaises(ht)) THEN MinPanelsRaises(ht)
    ELSE IF ~load_home_type_data.loaded THEN 8
    ELSE LET result == RowsWhere(load_home_type_data, "home_type", ht)
         IN  IF result # <<>>
             THEN CellInt(load_home_type_data, "min_panels", result[1].min_panels)
             ELSE 8

(***************************************************************************)
(* The script's names after a run: widget values, derived values, and the  *)
(* result record of the run in which the button was pressed.               *)
(***************************************************************************)
VARIABLES postcode, roof_direction_raw, has_shading, home_during_day,
          selected_supplier, seg_rate, day_rate, home_type_raw, panel_wattage,
          has_battery

VARIABLES region_name, regional_yield, roof_direction, supplier_seg_rate,
          min_panels_for_type, num_panels

\* Collected by the form; the results section reads annual_usage.
VARIABLES annual_usage, has_ev, hot_water_system, night_rate

VARIABLES results

\* Where the script is: "resolve" when a run has read the widgets and not yet
\* resolved them, "idle" when a run has finished and the form waits for the user.
VARIABLES pc

tables == <<regional_df, supplier_df, home_type_df>>

widgets ==
    <<postcode, roof_direction_raw, has_shading, home_during_day, selected_supplier,
      seg_rate, day_rate, home_type_raw, panel_wattage, has_battery>>

derived ==
    <<region_name, regional_yield, roof_direction, supplier_seg_rate,
      min_panels_for_type, num_panels>>

informational == <<annual_usage, has_ev, hot_water_system, night_rate>>

vars == <<tables, widgets, informational, derived, results, pc>>

(***************************************************************************)
(* calculate_solar_roi, step by step.                                      *)
(***************************************************************************)
SystemSizeKwp(panels, wattage) == FDiv(FFromInt(panels * wattage), Thousand)

ShadedFactor == Dec(90)

ShadingFactor(shading) == IF shading = "Yes" THEN ShadedFactor ELSE One

AnnualGeneration(kwp, yield, orientation_factor, shading_factor) ==
    FMul(FMul(FMul(kwp, FFromInt(yield)), orientation_factor), shading_factor)

BaseSelfUse == Dec(45)

HomeDuringDayBoost == Dec(10)

SelfUseCap == Dec(90)

\* Mutant: the cap taken with max instead of min.
SelfUsePercentMaxCap(home, battery) ==
    LET s1 == IF home = "Yes" THEN FAdd(BaseSelfUse, HomeDuringDayBoost) ELSE BaseSelfUse
        s2 == IF battery = "Yes" THEN FAdd(s1, BATTERY_SELF_USE_BOOST) ELSE s1
    IN  IF FCmp(s2, SelfUseCap) < 0 THEN SelfUseCap ELSE s2

SelfUsePercent(home, battery) ==
    LET s1 == IF home = "Yes" THEN FAdd(BaseSelfUse, HomeDuringDayBoost) ELSE BaseSelfUse
        s2 == IF battery = "Yes" THEN FAdd(s1, BATTERY_SELF_USE_BOOST) ELSE s1
    IN  FMin(SelfUseCap, s2)

SelfUsedKwh(annual_generation, self_use_percent) ==
    FMul(annual_generation, self_use_percent)

\* Mutant: the complement of the base fraction, not of the adjusted one.
ExportPercentOfBase(self_use_percent) == FSub(One, BaseSelfUse)

ExportPercent(self_use_percent) == FSub(One, self_use_percent)

\* Mutant: the export side computed on its own from the export fraction.
ExportedKwhFromFraction(annual_generation, self_used_kwh) ==
    FMul(annual_generation, ExportPercent(SelfUsePercent(home_during_day, has_battery)))

ExportedKwh(annual_generation, self_used_kwh) == FSub(annual_generation, self_used_kwh)

\* Mutant: the rate applied in pence, the division by 100 done last.
SavingsDivideLast(self_used_kwh, rate) == FDiv(FMul(self_used_kwh, rate), Hundred)

Savings(self_used_kwh, rate) == FMul(self_used_kwh, FDiv(rate, Hundred))

ExportIncome(exported_kwh, rate) == FMul(exported_kwh, FDiv(rate, Hundred))

TotalAnnualValue(savings, export_income) == FAdd(savings, export_income)

\* Mutant: no fixed cost of an installation.
PanelInstallCostPerPanelOnly(panels) == panels * COST_PER_PANEL

PanelInstallCost(panels) == FIXED_COST + (panels * COST_PER_PANEL)

BatteryInstallCost(battery) == IF battery = "Yes" THEN BATTERY_COST ELSE 0

\* Mutant: the battery left out of the total.
InstallCostPanelsOnly(panel_install_cost, battery_install_cost) == panel_install_cost

InstallCost(panel_install_cost, battery_install_cost) ==
    panel_install_cost + battery_install_cost

\* Mutant: the division without its guard.
PaybackYearsUnguarded(install_cost, total_annual_value) ==
    FDiv(FFromInt(install_cost), total_annual_value)

PaybackYears(install_cost, total_annual_value) ==
    IF FCmp(total_annual_value, Zero) > 0
    THEN FDiv(FFromInt(install_cost), total_annual_value)
    ELSE Zero

\* The local names of calculate_solar_roi, bound statement by statement: each
\* operator below is one group of assignments, applied to the names bound so far.
\* Mutant: self-used energy valued at the night rate.
ArgumentsNightTariff ==
    [roof_direction |-> roof_direction, has_shading |-> has_shading,
     home_during_day |-> home_during_day, has_battery |-> has_battery,
     num_panels |-> num_panels, panel_wattage |-> panel_wattage,
     regional_yield |-> regional_yield, region_name |-> region_name,
     day_rate |-> night_rate, seg_rate |-> seg_rate]

Arguments ==
    [roof_direction |-> roof_direction, has_shading |-> has_shading,
     home_during_day |-> home_during_day, has_battery |-> has_battery,
     num_panels |-> num_panels, panel_wattage |-> panel_wattage,
     regional_yield |-> regional_yield, region_name |-> region_name,
     day_rate |-> day_rate, seg_rate |-> seg_rate]

BindSystemSize(l) ==
    l @@ [system_size_kwp |-> SystemSizeKwp(l.num_panels, l.panel_wattage)]

BindFactors(l) ==
    l @@ [orientation_factor |-> ORIENTATION_FACTORS[l.roof_direction],
          shading_factor     |-> ShadingFactor(l.has_shading)]

BindAnnualGeneration(l) ==
    l @@ [annual_generation |-> AnnualGeneration(l.system_size_kwp, l.regional_yield,
                                                 l.orientation_factor, l.shading_factor)]

BindSelfUsePercent(l) ==
    l @@ [self_use_percent |-> SelfUsePercent(l.home_during_day, l.has_battery)]

BindSelfUsedKwh(l) ==
    l @@ [self_used_kwh |-> SelfUsedKwh(l.annual_generation, l.self_use_percent)]

BindExportedKwh(l) ==
    l @@ [exported_kwh |-> ExportedKwh(l.annual_generation, l.self_used_kwh)]

BindValue(l) ==
    l @@ [savings       |-> Savings(l.self_used_kwh, l.day_rate),
          export_income |-> ExportIncome(l.exported_kwh, l.seg_rate)]

BindTotalAnnualValue(l) ==
    l @@ [total_annual_value |-> TotalAnnualValue(l.savings, l.export_income)]

BindCosts(l) ==
    l @@ [panel_install_cost   |-> PanelInstallCost(l.num_panels),
          battery_install_cost |-> BatteryInstallCost(l.has_battery)]

BindInstallCost(l) ==
    l @@ [install_cost |-> InstallCost(l.panel_install_cost, l.battery_install_cost)]

BindPaybackYears(l) ==
    l @@ [payback_years |-> PaybackYears(l.install_cost, l.total_annual_value)]

BindExportPercent(l) ==
    l @@ [export_percent |-> ExportPercent(l.self_use_percent)]

\* The dictionary the function returns; an exception raised on the way leaves
\* the function instead.
Return(l) ==
    IF Raised(l.payback_years) THEN l.payback_years
    ELSE [system_size_kwp      |-> l.system_size_kwp,
          annual_generation    |-> l.annual_generation,
          self_used_kwh        |-> l.self_used_kwh,
          exported_kwh         |-> l.exported_kwh,
          self_use_percent     |-> l.self_use_percent,
          export_percent       |-> l.export_percent,
          savings              |-> l.savings,
          export_income        |-> l.export_income,
          total_annual_value   |-> l.total_annual_value,
          install_cost         |-> l.install_cost,
          panel_install_cost   |-> l.panel_install_cost,
          battery_install_cost |-> l.battery_install_cost,
          payback_years        |-> l.payback_years,
          orientation_factor   |-> l.orientation_factor,
          shading_factor       |-> l.shading_factor,
          regional_yield       |-> l.regional_yield,
          region_name          |-> l.region_name]

calculate_solar_roi ==
    IF roof_direction \notin DOMAIN ORIENTATION_FACTORS THEN KeyError
    ELSE Return(BindExportPercent(BindPaybackYears(BindInstallCost(BindCosts(
         BindTotalAnnualValue(BindValue(BindExportedKwh(BindSelfUsedKwh(
         BindSelfUsePercent(BindAnnualGeneration(BindFactors(BindSystemSize(
         Arguments)))))))))))))

\* No button press in this run: the results section is not rendered.
NoResults == [rendered |-> FALSE]

Returned(r) == "payback_years" \in DOMAIN r

(***************************************************************************)
(* The form.  Each edit of a widget is one run of the script: the values   *)
(* derived from the widgets are recomputed, and the results section is     *)
(* rendered only in the run the button triggers.                           *)
(***************************************************************************)
YesNo == {"No", "Yes"}

Range(seq) == {seq[i] : i \in 1..Len(seq)}

Column(df, col) == [i \in 1..Len(df.rows) |-> df.rows[i][col]]

supplier_list ==
    IF supplier_df.loaded
    THEN <<"Select your supplier...">> \o Column(supplier_df, "supplier")
            \o <<"Other / Don't know">>
    ELSE <<"Select your supplier...", "Other / Don't know">>

home_type_list ==
    IF home_type_df.loaded
    THEN <<"Select your home type">> \o Column(home_type_df, "home_type")
    ELSE <<"Select your home type", "Flat / Small home", "Terrace", "Semi-detached",
           "Detached", "Bungalow">>

RoofDirection(raw) == IF raw # "Select your roof direction" THEN raw ELSE "South"

\* Mutant: "Other / Don't know" looked up like any supplier name.
SupplierSegRateNoMinimum(supplier) ==
    IF supplier # "Select your supplier..." THEN get_seg_rate_for_supplier(supplier)
    ELSE DefaultSegRate

SupplierSegRate(supplier) ==
    IF supplier = "Other / Don't know" THEN MinimumSegRate
    ELSE IF supplier # "Select your supplier..." THEN get_seg_rate_for_supplier(supplier)
    ELSE DefaultSegRate

MinPanelsForType(raw) ==
    IF raw = "Select your home type" THEN 8 ELSE get_min_panels_for_home_type(raw)

\* The reference files of a deployment, as the loaders return them.
RegionYieldCsv ==
    Table(<<[prefix |-> <<"M">>, region |-> "North West", yield |-> 850],
            [prefix |-> <<"S">>, region |-> "Yorkshire", yield |-> 900],
            [prefix |-> <<"S", "W">>, region |-> "London", yield |-> 1000]>>)

SuppliersCsv ==
    Table(<<[supplier |-> "Octopus Energy", seg_rate |-> FFromInt(15),
             notes |-> "Outgoing Fixed"],
            [supplier |-> "British Gas", seg_rate |-> Dec(640),
             notes |-> "Export and Earn Flex"]>>)

HomeTypeCsv ==
    Table(<<[home_type |-> "Terrace", min_panels |-> 6, typical_kwp |-> "2.8",
             notes |-> "Limited roof space"],
            [home_type |-> "Detached", min_panels |-> 12, typical_kwp |-> "5.5",
             notes |-> "Large roof"]>>)

DataDirs == {<<RegionYieldCsv, SuppliersCsv, HomeTypeCsv>>, <<NoTable, NoTable, NoTable>>}

\* What the user enters and picks in this model.
PostcodeInputs == {<<>>, <<"m", "1">>}

SupplierInputs == {"Select your supplier...", "Octopus Energy", "Other / Don't know"}

SegRateInputs == {Dec(3000)}

DayRateInputs == {Dec(1000), Dec(2450)}

HomeTypeInputs == {"Select your home type", "Detached"}

WattageInputs == {300, 460}

PanelInputs == {24}

Init ==
    /\ \E dir \in DataDirs :
          /\ regional_df = dir[1]
          /\ supplier_df = dir[2]
          /\ home_type_df = dir[3]
    /\ postcode = <<>>
    /\ roof_direction_raw = "Select your roof direction"
    /\ has_shading = "No"
    /\ home_during_day = "No"
    /\ selected_supplier = "Select your supplier..."
    /\ seg_rate = DefaultSegRate
    /\ day_rate = Dec(2450)
    /\ home_type_raw = "Select your home type"
    /\ panel_wattage = 460
    /\ has_battery = "No"
    /\ region_name = "UK Average"
    /\ regional_yield = BASE_YIELD
    /\ roof_direction = "South"
    /\ supplier_seg_rate = DefaultSegRate
    /\ min_panels_for_type = 8
    /\ num_panels = 0
    /\ annual_usage = 3500
    /\ has_ev = "No"
    /\ hot_water_system = "Gas boiler"
    /\ night_rate = Dec(2450)
    /\ results = NoResults
    /\ pc = "idle"

EditPostcode(p) ==
    /\ p # postcode
    /\ postcode' = p
    /\ region_name' = get_regional_yield(p)[1]
    /\ regional_yield' = get_regional_yield(p)[2]
    /\ results' = NoResults
    /\ UNCHANGED <<pc, informational, tables,
                   roof_direction_raw, has_shading, home_during_day,
                   selected_supplier, seg_rate, day_rate, home_type_raw, panel_wattage,
                   has_battery, roof_direction, supplier_seg_rate, min_panels_for_type,
                   num_panels>>

SelectRoofDirection(d) ==
    /\ d # roof_direction_raw
    /\ roof_direction_raw' = d
    /\ roof_direction' = RoofDirection(d)
    /\ results' = NoResults
    /\ UNCHANGED <<pc, informational, tables,
                   postcode, has_shading, home_during_day, selected_supplier,
                   seg_rate, day_rate, home_type_raw, panel_wattage, has_battery,
                   region_name, regional_yield, supplier_seg_rate, min_panels_for_type,
                   num_panels>>

SetShading(v) ==
    /\ v # has_shading
    /\ has_shading' = v
    /\ results' = NoResults
    /\ UNCHANGED <<pc, informational, tables,
                   postcode, roof_direction_raw, home_during_day,
                   selected_supplier, seg_rate, day_rate, home_type_raw, panel_wattage,
                   has_battery, derived>>

SetHomeDuringDay(v) ==
    /\ v # home_during_day
    /\ home_during_day' = v
    /\ results' = NoResults
    /\ UNCHANGED <<pc, informational, tables,
                   postcode, roof_direction_raw, has_shading, selected_supplier,
                   seg_rate, day_rate, home_type_raw, panel_wattage, has_battery, derived>>

\* The export-rate input has no key: a changed default makes it a new widget.
SelectSupplier(s) ==
    /\ s # selected_supplier
    /\ selected_supplier' = s
    /\ supplier_seg_rate' = SupplierSegRate(s)
    /\ seg_rate' = IF SupplierSegRate(s) = supplier_seg_rate THEN seg_rate
                   ELSE SupplierSegRate(s)
    /\ results' = NoResults
    /\ UNCHANGED <<pc, informational, tables,
                   postcode, roof_direction_raw, has_shading, home_during_day,
                   day_rate, home_type_raw, panel_wattage, has_battery, region_name,
                   regional_yield, roof_direction, min_panels_for_type, num_panels>>

EditSegRate(r) ==
    /\ r # seg_rate
    /\ seg_rate' = r
    /\ results' = NoResults
    /\ UNCHANGED <<pc, informational, tables,
                   postcode, roof_direction_raw, has_shading, home_during_day,
                   selected_supplier, day_rate, home_type_raw, panel_wattage,
                   has_battery, derived>>

EditDayRate(r) ==
    /\ r # day_rate
    /\ day_rate' = r
    /\ results' = NoResults
    /\ UNCHANGED <<pc, informational, tables,
                   postcode, roof_direction_raw, has_shading, home_during_day,
                   selected_supplier, seg_rate, home_type_raw, panel_wattage,
                   has_battery, derived>>

\* The enabled slider starts at the minimum recommended for the home type;
\* without a home type the disabled slider is shown and the count is 0.
SelectHomeType(h) ==
    /\ h # home_type_raw
    /\ home_type_raw' = h
    /\ min_panels_for_type' = MinPanelsForType(h)
    /\ num_panels' = IF h = "Select your home type" THEN 0 ELSE MinPanelsForType(h)
    /\ results' = NoResults
    /\ UNCHANGED <<pc, informational, tables,
                   postcode, roof_direction_raw, has_shading, home_during_day,
                   selected_supplier, seg_rate, day_rate, panel_wattage, has_battery,
                   region_name, regional_yield, roof_direction, supplier_seg_rate>>

SlidePanels(n) ==
    /\ home_type_raw # "Select your home type"
    /\ n # num_panels
    /\ num_panels' = n
    /\ results' = NoResults
    /\ UNCHANGED <<pc, informational, tables,
                   widgets, region_name, regional_yield, roof_direction,
                   supplier_seg_rate, min_panels_for_type>>

EditWattage(w) ==
    /\ w # panel_wattage
    /\ panel_wattage' = w
    /\ results' = NoResults
    /\ UNCHANGED <<pc, informational, tables,
                   postcode, roof_direction_raw, has_shading, home_during_day,
                   selected_supplier, seg_rate, day_rate, home_type_raw, has_battery,
                   derived>>

SetBattery(v) ==
    /\ v # has_battery
    /\ has_battery' = v
    /\ results' = NoResults
    /\ UNCHANGED <<pc, informational, tables,
                   postcode, roof_direction_raw, has_shading, home_during_day,
                   selected_supplier, seg_rate, day_rate, home_type_raw, panel_wattage,
                   derived>>

\* "Calculate My Solar Savings"
Calculate ==
    /\ results' = calculate_solar_roi
    /\ UNCHANGED <<pc, informational, tables, widgets, derived>>

Next ==
    \/ \E p \in PostcodeInputs : EditPostcode(p)
    \/ \E d \in Range(roof_options) : SelectRoofDirection(d)
    \/ \E v \in YesNo : SetShading(v)
    \/ \E v \in YesNo : SetHomeDuringDay(v)
    \/ \E s \in Range(supplier_list) \cap SupplierInputs : SelectSupplier(s)
    \/ \E r \in SegRateInputs : EditSegRate(r)
    \/ \E r \in DayRateInputs : EditDayRate(r)
    \/ \E h \in Range(home_type_list) \cap HomeTypeInputs : SelectHomeType(h)
    \/ \E n \in PanelInputs : SlidePanels(n)
    \/ \E w \in WattageInputs : EditWattage(w)
    \/ \E v \in YesNo : SetBattery(v)
    \/ Calculate

Spec == Init /\ [][Next]_vars

(***************************************************************************)
(* calculate_solar_roi as a function of the names it reads, whatever the   *)
(* caller has bound them to.                                               *)
(***************************************************************************)
RoiPanels == {0, 4, 10}

RoiWattages == {400, 460}

RoiYields == {710, BASE_YIELD}

RoiDirections == {"South", "North-East", "North", "Select your roof direction"}

RoiDayRates == {Zero, Dec(2450)}

RoiSegRates == {Zero, FFromInt(21)}

InitRoi ==
    /\ regional_df = NoTable
    /\ supplier_df = NoTable
    /\ home_type_df = NoTable
    /\ postcode = <<>>
    /\ roof_direction_raw = "Select your roof direction"
    /\ selected_supplier = "Select your supplier..."
    /\ home_type_raw = "Select your home type"
    /\ region_name = "UK Average"
    /\ supplier_seg_rate = DefaultSegRate
    /\ min_panels_for_type = 8
    /\ num_panels \in RoiPanels
    /\ panel_wattage \in RoiWattages
    /\ regional_yield \in RoiYields
    /\ roof_direction \in RoiDirections
    /\ has_shading \in YesNo
    /\ home_during_day \in YesNo
    /\ has_battery \in YesNo
    /\ day_rate \in RoiDayRates
    /\ seg_rate \in RoiSegRates
    /\ annual_usage = 3500
    /\ has_ev = "No"
    /\ hot_water_system = "Gas boiler"
    /\ night_rate = Dec(2450)
    /\ results = NoResults
    /\ pc = "idle"

NextRoi == Calculate

SpecRoi == InitRoi /\ [][NextRoi]_vars

(***************************************************************************)
(* The resolution part of a script run, for any text in the postcode box   *)
(* and any supplier name and home-type label.                              *)
(***************************************************************************)
MaxPostcodeLen == 3

PostcodeAlphabet == {" ", "\t", "m", "M", "s", "S", "W", "1"}

RECURSIVE StringsUpTo(_)
StringsUpTo(n) ==
    IF n = 0 THEN {<<>>}
    ELSE LET shorter == StringsUpTo(n - 1)
         IN  shorter \cup {Append(t, c) : t \in shorter, c \in PostcodeAlphabet}

Postcodes == StringsUpTo(MaxPostcodeLen)

SupplierNames ==
    {"Select your supplier...", "Other / Don't know", "Octopus Energy", "British Gas",
     "octopus energy", "Acme Power"}

HomeTypeLabels == {"Select your home type", "Detached", "Terrace", "detached", "Castle"}

InitResolve ==
    /\ \E dir \in DataDirs :
          /\ regional_df = dir[1]
          /\ supplier_df = dir[2]
          /\ home_type_df = dir[3]
    /\ \/ /\ postcode \in Postcodes
          /\ selected_supplier = "Select your supplier..."
          /\ home_type_raw = "Select your home type"
       \/ /\ postcode = <<>>
          /\ selected_supplier \in SupplierNames
          /\ home_type_raw \in HomeTypeLabels
    /\ roof_direction_raw = "Select your roof direction"
    /\ has_shading = "No"
    /\ home_during_day = "No"
    /\ day_rate = Dec(2450)
    /\ panel_wattage = 460
    /\ has_battery = "No"
    /\ region_name = ""
    /\ regional_yield = 0
    /\ roof_direction = ""
    /\ supplier_seg_rate = Zero
    /\ seg_rate = Zero
    /\ min_panels_for_type = 0
    /\ num_panels = 0
    /\ annual_usage = 3500
    /\ has_ev = "No"
    /\ hot_water_system = "Gas boiler"
    /\ night_rate = Dec(2450)
    /\ results = NoResults
    /\ pc = "resolve"

Resolve ==
    /\ pc = "resolve"
    /\ region_name' = get_regional_yield(postcode)[1]
    /\ regional_yield' = get_regional_yield(postcode)[2]
    /\ roof_direction' = RoofDirection(roof_direction_raw)
    /\ supplier_seg_rate' = SupplierSegRate(selected_supplier)
    /\ seg_rate' = SupplierSegRate(selected_supplier)
    /\ min_panels_for_type' = MinPanelsForType(home_type_raw)
    /\ num_panels' = IF home_type_raw = "Select your home type" THEN 0
                     ELSE MinPanelsForType(home_type_raw)
    /\ pc' = "idle"
    /\ UNCHANGED <<informational, tables,
                   postcode, roof_direction_raw, has_shading, home_during_day,
                   selected_supplier, day_rate, home_type_raw, panel_wattage,
                   has_battery, results>>

NextResolve == Resolve

SpecResolve == InitResolve /\ [][NextResolve]_vars

(***************************************************************************)
(* The three lookups as functions of their argument and of the reference   *)
(* file, whatever the file holds: absent, as shipped, without a column the *)
(* lookup reads, or with text where a number is expected.                  *)
(***************************************************************************)
RegionYieldNoPrefix ==
    Table(<<[area |-> <<"M">>, region |-> "North West", yield |-> 850],
            [area |-> <<"S">>, region |-> "Yorkshire", yield |-> 900]>>)

RegionYieldTextYield ==
    TextTable(<<[prefix |-> <<"M">>, region |-> "North West",
                 yield |-> <<"8", "5", "0">>],
                [prefix |-> <<"S">>, region |-> "Yorkshire",
                 yield |-> <<"t", "b", "c">>]>>, {"yield"})

SuppliersNoSegRate ==
    Table(<<[supplier |-> "Octopus Energy", notes |-> "Outgoing Fixed"],
            [supplier |-> "British Gas", notes |-> "Export and Earn Flex"]>>)

SuppliersTextSegRate ==
    TextTable(<<[supplier |-> "Octopus Energy", seg_rate |-> <<"t", "b", "c">>,
                 notes |-> "Outgoing Fixed"],
                [supplier |-> "British Gas", seg_rate |-> <<"6", ".", "4">>,
                 notes |-> "Export and Earn Flex"]>>, {"seg_rate"})

HomeTypeNoMinPanels ==
    Table(<<[home_type |-> "Terrace", typical_kwp |-> "2.8",
             notes |-> "Limited roof space"],
            [home_type |-> "Detached", typical_kwp |-> "5.5",
             notes |-> "Large roof"]>>)

HomeTypeTextMinPanels ==
    TextTable(<<[home_type |-> "Terrace", min_panels |-> <<"6">>,
                 typical_kwp |-> "2.8", notes |-> "Limited roof space"],
                [home_type |-> "Detached", min_panels |-> <<"1", "2", "+">>,
                 typical_kwp |-> "5.5", notes |-> "Large roof"]>>, {"min_panels"})

RegionYieldFiles == {NoTable, RegionYieldCsv, RegionYieldNoPrefix, RegionYieldTextYield}

SupplierFiles == {NoTable, SuppliersCsv, SuppliersNoSegRate, SuppliersTextSegRate}

HomeTypeFiles == {NoTable, HomeTypeCsv, HomeTypeNoMinPanels, HomeTypeTextMinPanels}

LookupPostcodes == {<<>>, <<"m", "1">>, <<"S", "1">>, <<"Z", "1">>}

LookupSuppliers == {"Octopus Energy", "British Gas", "Acme Power"}

LookupHomeTypes == {"Terrace", "Detached", "Castle"}

InitLookup ==
    /\ regional_df \in RegionYieldFiles
    /\ supplier_df \in SupplierFiles
    /\ home_type_df \in HomeTypeFiles
    /\ postcode \in LookupPostcodes
    /\ selected_supplier \in LookupSuppliers
    /\ home_type_raw \in LookupHomeTypes
    /\ roof_direction_raw = "Select your roof direction"
    /\ has_shading = "No"
    /\ home_during_day = "No"
    /\ day_rate = Dec(2450)
    /\ panel_wattage = 460
    /\ has_battery = "No"
    /\ region_name = ""
    /\ regional_yield = 0
    /\ roof_direction = ""
    /\ supplier_seg_rate = Zero
    /\ seg_rate = Zero
    /\ min_panels_for_type = 0
    /\ num_panels = 0
    /\ annual_usage = 3500
    /\ has_ev = "No"
    /\ hot_water_system = "Gas boiler"
    /\ night_rate = Dec(2450)
    /\ results = NoResults
    /\ pc = "resolve"

\* How a call ends: with the exception it raises or with the value it returns.
Outcome(function, raises, value) ==
    IF Raised(raises) THEN [call |-> function, exception |-> raises.exception]
    ELSE [call |-> function, returned |-> value]

CallRegionalYield ==
    /\ results = NoResults
    /\ results' = Outcome("get_regional_yield", RegionalYieldRaises(postcode),
                          get_regional_yield(postcode))
    /\ UNCHANGED <<pc, informational, tables, widgets, derived>>

CallSegRateForSupplier ==
    /\ results = NoResults
    /\ results' = Outcome("get_seg_rate_for_supplier", SegRateRaises(selected_supplier),
                          get_seg_rate_for_supplier(selected_supplier))
    /\ UNCHANGED <<pc, informational, tables, widgets, derived>>

CallMinPanelsForHomeType ==
    /\ results = NoResults
    /\ results' = Outcome("get_min_panels_for_home_type", MinPanelsRaises(home_type_raw),
                          get_min_panels_for_home_type(home_type_raw))
    /\ UNCHANGED <<pc, informational, tables, widgets, derived>>

NextLookup == CallRegionalYield \/ CallSegRateForSupplier \/ CallMinPanelsForHomeType

SpecLookup == InitLookup /\ [][NextLookup]_vars

(***************************************************************************)
(* The results section: what the run of the button shows of the payback.   *)
(***************************************************************************)
RECURSIVE BigToNat(_)
BigToNat(a) == IF a = <<>> THEN 0 ELSE a[1] + Base * BigToNat(Tail(a))

\* format(x, ".1f"): the decimal with one place nearest to x, ties to even,
\* as its number of tenths.
FormatTenths(x) ==
    LET n == BigMulSmall(x.m, 10)
    IN  IF x.e >= 0 THEN BigToNat(BigShl(n, x.e))
        ELSE LET q   == BigShr(n, -x.e)
                 rem == BigSub(n, BigShl(q, -x.e))
                 c   == BigCmp(rem, BigShl(<<1>>, -x.e - 1))
                 up  == c > 0 \/ (c = 0 /\ Limb(q, 1) % 2 = 1)
             IN  BigToNat(IF up THEN BigAdd(q, <<1>>) ELSE q)

\* f"{x:.1f} years"
YearsText(x) ==
    [whole |-> FormatTenths(x) \div 10, tenth |-> FormatTenths(x) % 10,
     unit |-> "years"]

Nothing == [shown |-> FALSE]

\* The "Payback Period" metric.
metric_col4 ==
    IF Returned(results) THEN YearsText(results.payback_years) ELSE Nothing

\* "You'd recover your investment in approximately ... years."
summary_payback ==
    IF Returned(results) THEN YearsText(results.payback_years) ELSE Nothing

\* The payback assessment, first of the recommendations.
recommendations ==
    IF ~Returned(results) THEN "nothing"
    ELSE IF FCmp(results.payback_years, FFromInt(7)) < 0
         THEN "Excellent payback period!"
    ELSE IF FCmp(results.payback_years, FFromInt(10)) < 0
         THEN "Good payback period."
    ELSE "Long payback period."

(***************************************************************************)
(* calculate_solar_roi called again after one of the script's names has    *)
(* been bound to another value: two calls side by side.                    *)
(***************************************************************************)
AgainPanels == {0, 10}

AgainDayRates == {Dec(1000), Dec(2450)}

UsageInputs == {3500, 20000}

HotWaterInputs == {"Gas boiler", "Heat pump"}

NightRateInputs == {Dec(500), Dec(2450)}

InitAgain ==
    /\ regional_df = NoTable
    /\ supplier_df = NoTable
    /\ home_type_df = NoTable
    /\ postcode = <<>>
    /\ roof_direction_raw = "South"
    /\ selected_supplier = "Select your supplier..."
    /\ home_type_raw = "Select your home type"
    /\ region_name = "UK Average"
    /\ supplier_seg_rate = DefaultSegRate
    /\ min_panels_for_type = 8
    /\ num_panels \in AgainPanels
    /\ panel_wattage = 460
    /\ regional_yield = BASE_YIELD
    /\ roof_direction = "South"
    /\ has_shading = "No"
    /\ home_during_day \in YesNo
    /\ has_battery \in YesNo
    /\ day_rate \in AgainDayRates
    /\ seg_rate = DefaultSegRate
    /\ annual_usage = 3500
    /\ has_ev = "No"
    /\ hot_water_system = "Gas boiler"
    /\ night_rate = Dec(2450)
    /\ results = NoResults
    /\ pc = "idle"

\* Position after the call that follows the binding of a name.
AgainLabel ==
    [annual_usage |-> "called with annual_usage",
     has_ev |-> "called with has_ev",
     hot_water_system |-> "called with hot_water_system",
     night_rate |-> "called with night_rate",
     home_type |-> "called with home_type",
     home_during_day |-> "called with home_during_day",
     has_battery |-> "called with has_battery"]

AtRest == {"idle"} \cup {AgainLabel[n] : n \in DOMAIN AgainLabel}

FirstCall ==
    /\ pc = "idle"
    /\ results = NoResults
    /\ Calculate

BindAnnualUsage(v) ==
    /\ Returned(results)
    /\ pc \in AtRest
    /\ v # annual_usage
    /\ annual_usage' = v
    /\ pc' = "annual_usage"
    /\ UNCHANGED <<results, tables, widgets, derived, has_ev, hot_water_system,
                   night_rate>>

BindEv(v) ==
    /\ Returned(results)
    /\ pc \in AtRest
    /\ v # has_ev
    /\ has_ev' = v
    /\ pc' = "has_ev"
    /\ UNCHANGED <<results, tables, widgets, derived, annual_usage, hot_water_system,
                   night_rate>>

BindHotWater(v) ==
    /\ Returned(results)
    /\ pc \in AtRest
    /\ v # hot_water_system
    /\ hot_water_system' = v
    /\ pc' = "hot_water_system"
    /\ UNCHANGED <<results, tables, widgets, derived, annual_usage, has_ev, night_rate>>

BindNightRate(v) ==
    /\ Returned(results)
    /\ pc \in AtRest
    /\ v # night_rate
    /\ night_rate' = v
    /\ pc' = "night_rate"
    /\ UNCHANGED <<results, tables, widgets, derived, annual_usage, has_ev,
                   hot_water_system>>

BindHomeType(v) ==
    /\ Returned(results)
    /\ pc \in AtRest
    /\ v # home_type_raw
    /\ home_type_raw' = v
    /\ pc' = "home_type"
    /\ UNCHANGED <<results, tables, informational, derived, postcode,
                   roof_direction_raw, has_shading, home_during_day, selected_supplier,
                   seg_rate, day_rate, panel_wattage, has_battery>>

BindHomeDuringDay(v) ==
    /\ Returned(results)
    /\ pc \in AtRest
    /\ v # home_during_day
    /\ home_during_day' = v
    /\ pc' = "home_during_day"
    /\ UNCHANGED <<results, tables, informational, derived, postcode,
                   roof_direction_raw, has_shading, selected_supplier, seg_rate,
                   day_rate, home_type_raw, panel_wattage, has_battery>>

BindBattery(v) ==
    /\ Returned(results)
    /\ pc \in AtRest
    /\ v # has_battery
    /\ has_battery' = v
    /\ pc' = "has_battery"
    /\ UNCHANGED <<results, tables, informational, derived, postcode,
                   roof_direction_raw, has_shading, home_during_day, selected_supplier,
                   seg_rate, day_rate, home_type_raw, panel_wattage>>

CallAgain ==
    /\ pc \in DOMAIN AgainLabel
    /\ results' = calculate_solar_roi
    /\ pc' = AgainLabel[pc]
    /\ UNCHANGED <<informational, tables, widgets, derived>>

NextAgain ==
    \/ FirstCall
    \/ \E v \in UsageInputs : BindAnnualUsage(v)
    \/ \E v \in YesNo : BindEv(v)
    \/ \E v \in HotWaterInputs : BindHotWater(v)
    \/ \E v \in NightRateInputs : BindNightRate(v)
    \/ \E v \in HomeTypeInputs : BindHomeType(v)
    \/ \E v \in YesNo : BindHomeDuringDay(v)
    \/ \E v \in YesNo : BindBattery(v)
    \/ CallAgain

SpecAgain == InitAgain /\ [][NextAgain]_vars

(***************************************************************************)
(* Properties of calculate_solar_roi (checked under SpecRoi).              *)
(***************************************************************************)
FLeq(a, b) == FCmp(a, b) <= 0

\* C1: in every returned result the self-use fraction lies in [0.45, 0.90] and is
\* the 0.45 base plus 0.10 if home during the day plus the 0.25 battery boost if a
\* battery is included, the 0.90 ceiling applied to that total: 0.45, 0.55, 0.70
\* or 0.80 for the four combinations of the two inputs.
C1_SelfUseFraction ==
    Returned(results) =>
        LET s == results.self_use_percent
        IN  /\ FLeq(Dec(45), s)
            /\ FLeq(s, Dec(90))
            /\ s = CASE home_during_day = "No"  /\ has_battery = "No"  -> Dec(45)
                     [] home_during_day = "Yes" /\ has_battery = "No"  -> Dec(55)
                     [] home_during_day = "No"  /\ has_battery = "Yes" -> Dec(70)
                     [] home_during_day = "Yes" /\ has_battery = "Yes" -> Dec(80)

C1_Witness ==
    /\ Returned(results)
    /\ home_during_day = "Yes"
    /\ has_battery = "Yes"
    /\ results.self_use_percent = Dec(80)

\* C2: in every returned result self_use_percent + export_percent, added as
\* floats, is exactly 1.
C2_FractionsSumToOne ==
    Returned(results) => FAdd(results.self_use_percent, results.export_percent) = One

\* At 0.55 the export fraction is 0.44999999999999996, not the float 0.45.
C2_Witness ==
    /\ Returned(results)
    /\ results.self_use_percent = Dec(55)
    /\ results.export_percent # Dec(45)
    /\ FAdd(results.self_use_percent, results.export_percent) = One

\* C3 as stated: in every returned result self_used_kwh + exported_kwh, added as
\* floats, is exactly annual_generation.
C3_Original ==
    Returned(results) =>
        FAdd(results.self_used_kwh, results.exported_kwh) = results.annual_generation

\* The unit in the last place of a positive float.
Ulp(x) == [m |-> <<1>>, e |-> x.e + BigBitLen(x.m) - 53]

FDist(a, b) == IF FLeq(a, b) THEN FSub(b, a) ELSE FSub(a, b)

\* C3 amended: self_used_kwh is annual_generation * fraction and exported_kwh is
\* annual_generation - self_used_kwh, each rounded once; their float sum is
\* exactly annual_generation whenever the fraction is at least 0.5 (home during
\* the day, or a battery), and otherwise within one unit in the last place of it.
C3_EnergySplit ==
    Returned(results) =>
        LET gen == results.annual_generation
            su  == results.self_used_kwh
            ex  == results.exported_kwh
            sum == FAdd(su, ex)
        IN  /\ su = FMul(gen, results.self_use_percent)
            /\ ex = FSub(gen, su)
            /\ FLeq(Dec(50), results.self_use_percent) => sum = gen
            /\ gen # Zero => FLeq(FDist(sum, gen), Ulp(gen))
            /\ gen = Zero => sum = Zero

\* 4370 kWh at fraction 0.55 splits into 2403.5 and 1966.5.
C3_Witness ==
    /\ Returned(results)
    /\ results.annual_generation = FFromInt(4370)
    /\ results.self_use_percent = Dec(55)
    /\ results.self_used_kwh = Dec(240350)
    /\ results.exported_kwh = Dec(196650)

\* C4: a call never ends in a division by zero; a returned payback_years is
\* install_cost / total_annual_value when total_annual_value > 0 and 0 otherwise.
C4_PaybackSentinel ==
    /\ results # ZeroDivisionError
    /\ Returned(results) =>
          IF FCmp(results.total_annual_value, Zero) > 0
          THEN results.payback_years =
                   FDiv(FFromInt(results.install_cost), results.total_annual_value)
          ELSE results.payback_years = Zero

\* Both rates 0 with panels on the roof: the benefit is 0 and the sentinel is returned.
C4_Witness ==
    /\ Returned(results)
    /\ day_rate = Zero
    /\ seg_rate = Zero
    /\ num_panels > 0
    /\ results.total_annual_value = Zero
    /\ results.payback_years = Zero

\* C6: in every returned result savings = self_used_kwh * (day_rate / 100),
\* export_income = exported_kwh * (seg_rate / 100) and total_annual_value is their
\* sum: rates in pence per kWh, results in pounds.
C6_FinancialBenefit ==
    Returned(results) =>
        /\ results.savings = FMul(results.self_used_kwh, FDiv(day_rate, FFromInt(100)))
        /\ results.export_income =
               FMul(results.exported_kwh, FDiv(seg_rate, FFromInt(100)))
        /\ results.total_annual_value = FAdd(results.savings, results.export_income)

\* 4370 kWh at 0.55, 24.5p and 21p: 2403.5 kWh save 588.8575 pounds and
\* 1966.5 kWh earn 412.965 pounds.
C6_Witness ==
    /\ Returned(results)
    /\ day_rate = Dec(2450)
    /\ seg_rate = FFromInt(21)
    /\ results.self_used_kwh = Dec(240350)
    /\ results.savings = FDiv(FFromInt(5888575), FFromInt(10000))
    /\ results.export_income = FDiv(FFromInt(412965), FFromInt(1000))

\* C7: in every returned result install_cost = FIXED_COST + panel count *
\* COST_PER_PANEL, plus BATTERY_COST exactly when a battery is included;
\* panel_install_cost + battery_install_cost = install_cost, and
\* battery_install_cost is 0 without a battery.
C7_InstallCost ==
    Returned(results) =>
        /\ results.install_cost =
               FIXED_COST + num_panels * COST_PER_PANEL
                   + (IF has_battery = "Yes" THEN BATTERY_COST ELSE 0)
        /\ results.panel_install_cost + results.battery_install_cost
               = results.install_cost
        /\ has_battery # "Yes" => results.battery_install_cost = 0
        /\ has_battery = "Yes" => results.battery_install_cost = BATTERY_COST

\* Ten panels with a battery: 2500 + 3500 + 4000.
C7_Witness ==
    /\ Returned(results)
    /\ num_panels = 10
    /\ has_battery = "Yes"
    /\ results.panel_install_cost = 6000
    /\ results.battery_install_cost = 4000
    /\ results.install_cost = 10000

(***************************************************************************)
(* Properties of the form (checked under Spec).                            *)
(***************************************************************************)
\* C5: whatever edits came before, a result has system_size_kwp = the current
\* panel count * the current wattage / 1000 and annual_generation =
\* system_size_kwp * regional yield * orientation factor * shading factor, the
\* orientation factor being South 1.0, South-East/South-West 0.95, East/West
\* 0.85, North-East/North-West 0.70, North 0.6 and the shading factor 0.9 with
\* shading and 1.0 without.
C5_SizeAndGeneration ==
    Returned(results) =>
        LET kwp == FDiv(FFromInt(num_panels * panel_wattage), FFromInt(1000))
            orientation ==
                CASE roof_direction = "South" -> FFromInt(1)
                  [] roof_direction \in {"South-East", "South-West"} -> Dec(95)
                  [] roof_direction \in {"East", "West"} -> Dec(85)
                  [] roof_direction \in {"North-East", "North-West"} -> Dec(70)
                  [] roof_direction = "North" -> Dec(60)
            shading == IF has_shading = "Yes" THEN Dec(90) ELSE FFromInt(1)
        IN  /\ results.system_size_kwp = kwp
            /\ results.annual_generation =
                   FMul(FMul(FMul(kwp, FFromInt(regional_yield)), orientation), shading)

\* After five edits: 24 panels of 300 W facing South-West, shaded, in the North
\* West (850): 7.2 kWp.
C5_Witness ==
    /\ Returned(results)
    /\ num_panels = 24
    /\ panel_wattage = 300
    /\ roof_direction_raw = "South-West"
    /\ has_shading = "Yes"
    /\ regional_yield = 850
    /\ results.system_size_kwp = Dec(720)

(***************************************************************************)
(* Properties of the reference-data resolution (checked under SpecResolve).*)
(***************************************************************************)
IsLetter(c) == \E i \in 1..26 : c = LowerLetters[i] \/ c = UpperLetters[i]

SetMin(S) == CHOOSE x \in S : \A y \in S : x <= y

SetMax(S) == CHOOSE x \in S : \A y \in S : y <= x

NonWhitespace(p) == {i \in 1..Len(p) : p[i] \notin Whitespace}

Blank(p) == NonWhitespace(p) = {}

\* The positions of a postcode that survive normalization: between the first and
\* the last non-whitespace character, everything but the spaces.
Kept(p) == {i \in SetMin(NonWhitespace(p))..SetMax(NonWhitespace(p)) : p[i] # " "}

NoLeadingLetter(p) == ~Blank(p) /\ ~IsLetter(p[SetMin(Kept(p))])

\* The area prefix: the first one or two letters of the normalized postcode.
AreaPrefix(p) ==
    LET first == SetMin(Kept(p))
        rest  == Kept(p) \ {first}
    IN  IF rest # {} /\ IsLetter(p[SetMin(rest)])
        THEN <<UpperChar(p[first]), UpperChar(p[SetMin(rest)])>>
        ELSE <<UpperChar(p[first])>>

HasAreaPrefix(p) == ~Blank(p) /\ ~NoLeadingLetter(p)

YieldRows(p) ==
    {i \in 1..Len(regional_df.rows) : regional_df.rows[i].prefix = AreaPrefix(p)}

\* C8: a postcode that is empty or whitespace-only, or has no leading letter after
\* normalization, or whose area prefix is not in the regional yield table,
\* resolves to ("UK Average", 950).
C8_YieldFallback ==
    (/\ pc = "idle"
     /\ \/ Blank(postcode)
        \/ NoLeadingLetter(postcode)
        \/ HasAreaPrefix(postcode) /\ YieldRows(postcode) = {})
    => region_name = "UK Average" /\ regional_yield = 950

\* "MS1": the table has rows for M and for S, none for MS.
C8_Witness ==
    /\ pc = "idle"
    /\ regional_df.loaded
    /\ postcode = <<"M", "S", "1">>
    /\ region_name = "UK Average"
    /\ regional_yield = 950

FlipCase(c) ==
    IF \E i \in 1..26 : LowerLetters[i] = c
    THEN UpperLetters[CHOOSE i \in 1..26 : LowerLetters[i] = c]
    ELSE IF \E i \in 1..26 : UpperLetters[i] = c
    THEN LowerLetters[CHOOSE i \in 1..26 : UpperLetters[i] = c]
    ELSE c

\* Postcodes one step away from p in letter case or in spaces.
CaseSpaceVariants(p) ==
    {[p EXCEPT ![i] = FlipCase(p[i])] : i \in 1..Len(p)}
        \cup {SubSeq(p, 1, k) \o <<" ">> \o SubSeq(p, k + 1, Len(p)) : k \in 0..Len(p)}
        \cup {SubSeq(p, 1, i - 1) \o SubSeq(p, i + 1, Len(p)) :
                 i \in {j \in 1..Len(p) : p[j] = " "}}

\* C9: a postcode whose area prefix (the first one or two letters after
\* stripping, upper-casing and removing spaces) is a prefix of the table resolves
\* to exactly that row, and changing the case of a letter or adding or removing a
\* space never changes what a postcode resolves to.
C9_PrefixLookup ==
    pc = "idle" =>
        /\ (HasAreaPrefix(postcode) /\ YieldRows(postcode) # {}) =>
               LET row == regional_df.rows[SetMin(YieldRows(postcode))]
               IN  region_name = row.region /\ regional_yield = row.yield
        /\ \A q \in CaseSpaceVariants(postcode) :
               get_regional_yield(q) = <<region_name, regional_yield>>

\* "s W": both letters are the prefix, and it is the SW row, not the S row.
C9_Witness ==
    /\ pc = "idle"
    /\ postcode = <<"s", " ", "W">>
    /\ region_name = "London"
    /\ regional_yield = 1000

SupplierRows ==
    {i \in 1..Len(supplier_df.rows) : supplier_df.rows[i].supplier = selected_supplier}

\* C10: "Select your supplier..." resolves to the default 21 p/kWh, "Other / Don't
\* know" to the minimum 4 p/kWh, a name that is a row of the supplier table to
\* that row's rate, and any other name to the default 21.
C10_ExportRate ==
    pc = "idle" =>
        supplier_seg_rate =
            CASE selected_supplier = "Select your supplier..." -> FFromInt(21)
              [] selected_supplier = "Other / Don't know" -> FFromInt(4)
              [] OTHER ->
                    IF SupplierRows # {}
                    THEN supplier_df.rows[SetMin(SupplierRows)].seg_rate
                    ELSE FFromInt(21)

\* A name that differs from a row only in case is not that row.
C10_Witness ==
    /\ pc = "idle"
    /\ supplier_df.loaded
    /\ selected_supplier = "octopus energy"
    /\ supplier_seg_rate = FFromInt(21)

HomeTypeRows ==
    {i \in 1..Len(home_type_df.rows) : home_type_df.rows[i].home_type = home_type_raw}

\* C11: a home-type label that is a row of the home-type table resolves to that
\* row's minimum panel count; "Select your home type" and every label that is no
\* row of the table (or any label when there is no table) resolve to 8.
C11_MinPanels ==
    pc = "idle" =>
        min_panels_for_type =
            IF home_type_raw # "Select your home type" /\ HomeTypeRows # {}
            THEN home_type_df.rows[SetMin(HomeTypeRows)].min_panels
            ELSE 8

\* A detached home has a row (12 panels).
C11_Witness ==
    /\ pc = "idle"
    /\ home_type_df.loaded
    /\ home_type_raw = "Detached"
    /\ min_panels_for_type = 12

(***************************************************************************)
(* Properties of the lookups on any reference file (checked under          *)
(* SpecLookup).                                                            *)
(***************************************************************************)
Called(function) == "call" \in DOMAIN results /\ results.call = function

\* The first row of the table whose key column holds the key, when the table has
\* that column and such a row; 0 otherwise.
MatchedRow(df, keycol, key) ==
    IF df.loaded /\ HasColumn(df, keycol)
          /\ \E i \in 1..Len(df.rows) : df.rows[i][keycol] = key
    THEN SetMin({i \in 1..Len(df.rows) : df.rows[i][keycol] = key})
    ELSE 0

\* Missing or malformed for a lookup of the key: the file is absent or
\* unreadable, lacks a column the lookup reads, or holds text that is no number
\* in the number cell of the matched row.
Malformed(df, keycol, key, cols, numcol, conversion) ==
    \/ ~df.loaded
    \/ \E c \in {keycol} \cup cols : ~HasColumn(df, c)
    \/ /\ MatchedRow(df, keycol, key) # 0
       /\ numcol \in ObjectColumns(df)
       /\ ~IsLiteral(conversion, df.rows[MatchedRow(df, keycol, key)][numcol])

\* C12 as stated: no lookup raises, and on a missing or malformed table each
\* returns its fallback: ("UK Average", 950), 21.0 and 8.
C12_Original ==
    /\ Called("get_regional_yield") =>
          /\ ~Raised(results)
          /\ Malformed(regional_df, "prefix",
                       MatchPrefix(StrRemoveSpaces(StrUpper(StrStrip(postcode)))),
                       {"region", "yield"}, "yield", "int")
                => results.returned = <<"UK Average", 950>>
    /\ Called("get_seg_rate_for_supplier") =>
          /\ ~Raised(results)
          /\ Malformed(supplier_df, "supplier", selected_supplier,
                       {"seg_rate"}, "seg_rate", "float")
                => results.returned = FFromInt(21)
    /\ Called("get_min_panels_for_home_type") =>
          /\ ~Raised(results)
          /\ Malformed(home_type_df, "home_type", home_type_raw,
                       {"min_panels"}, "min_panels", "int")
                => results.returned = 8

\* What the code does on a missing or malformed table: an absent file gives the
\* fallback; a file without the key column raises KeyError; with the key column,
\* an unmatched key gives the fallback and a matched one raises KeyError for a
\* missing value column and ValueError for text that is no number.
C12_LookupFailures ==
    /\ (Called("get_regional_yield") /\ postcode # <<>>) =>
          IF ~regional_df.loaded THEN results.returned = <<"UK Average", 950>>
          ELSE IF ~HasColumn(regional_df, "prefix") THEN results.exception = "KeyError"
          ELSE IF regional_df = RegionYieldTextYield /\ postcode = <<"S", "1">>
          THEN results.exception = "ValueError"
          ELSE ~Raised(results)
    /\ Called("get_seg_rate_for_supplier") =>
          IF ~supplier_df.loaded THEN results.returned = FFromInt(21)
          ELSE IF MatchedRow(supplier_df, "supplier", selected_supplier) = 0
          THEN results.returned = FFromInt(21)
          ELSE IF ~HasColumn(supplier_df, "seg_rate") THEN results.exception = "KeyError"
          ELSE IF supplier_df = SuppliersTextSegRate
                    /\ selected_supplier = "Octopus Energy"
          THEN results.exception = "ValueError"
          ELSE ~Raised(results)
    /\ Called("get_min_panels_for_home_type") =>
          IF ~home_type_df.loaded THEN results.returned = 8
          ELSE IF MatchedRow(home_type_df, "home_type", home_type_raw) = 0
          THEN results.returned = 8
          ELSE IF ~HasColumn(home_type_df, "min_panels")
          THEN results.exception = "KeyError"
          ELSE IF home_type_df = HomeTypeTextMinPanels /\ home_type_raw = "Detached"
          THEN results.exception = "ValueError"
          ELSE ~Raised(results)

\* A region file without its prefix column: the lookup of "m1" ends in KeyError.
C12_Witness ==
    /\ Called("get_regional_yield")
    /\ regional_df = RegionYieldNoPrefix
    /\ postcode = <<"m", "1">>
    /\ results.exception = "KeyError"

(***************************************************************************)
(* Properties of the form's input handling (checked under Spec).           *)
(***************************************************************************)
\* C13 as stated: with a roof-direction input that is none of the eight
\* directions (the placeholder "Select your roof direction" included) no
\* estimate is produced: the calculation ends in an error, not in a result.
C13_Original ==
    roof_direction_raw \notin DOMAIN ORIENTATION_FACTORS => ~Returned(results)

\* Calculate pressed on the untouched form: the placeholder is computed as South.
C13_Witness ==
    /\ roof_direction_raw = "Select your roof direction"
    /\ Returned(results)
    /\ roof_direction = "South"
    /\ results.orientation_factor = One

\* C14 as stated: a result is only ever returned for a positive panel count and
\* a positive wattage; with any other value the calculation ends in an error.
C14_Original ==
    Returned(results) => num_panels > 0 /\ panel_wattage > 0

\* Calculate pressed with no home type selected: the slider is disabled, the
\* panel count is 0 and a result for a 0 kWp system is returned.
C14_Witness ==
    /\ home_type_raw = "Select your home type"
    /\ num_panels = 0
    /\ Returned(results)
    /\ results.system_size_kwp = Zero
    /\ results.annual_generation = Zero

(***************************************************************************)
(* Properties of two calls of calculate_solar_roi (checked under           *)
(* SpecAgain).                                                             *)
(***************************************************************************)
FLess(a, b) == FCmp(a, b) < 0

\* C15: when calculate_solar_roi is called again after only the battery was
\* added, the self-use fraction is larger than before if it was below 0.90
\* (0.45 becomes 0.70, 0.55 becomes 0.80) and the same if it was at 0.90; it is
\* never smaller.
C15_BatteryRaisesSelfUse ==
    [][(pc = "has_battery" /\ has_battery = "Yes" /\ pc' = AgainLabel[pc])
       => /\ Returned(results')
          /\ FLeq(results.self_use_percent, results'.self_use_percent)
          /\ IF FLess(results.self_use_percent, Dec(90))
             THEN FLess(results.self_use_percent, results'.self_use_percent)
             ELSE results'.self_use_percent = results.self_use_percent
          /\ (results.self_use_percent = Dec(55))
                => (results'.self_use_percent = Dec(80))]_vars

\* Home during the day, called again with the battery added: 0.80.
C15_Witness ==
    /\ pc = AgainLabel["has_battery"]
    /\ has_battery = "Yes"
    /\ home_during_day = "Yes"
    /\ results.self_use_percent = Dec(80)

UnusedNames == {"annual_usage", "has_ev", "hot_water_system", "night_rate", "home_type"}

\* C16: when calculate_solar_roi is called again after only annual consumption,
\* the EV flag, the hot-water system, the night rate or the home type was bound
\* to another value (panel count, wattage, regional yield, roof direction,
\* shading, home-during-day, battery, day rate and export rate as before), it
\* returns the same result as before.
C16_UnusedFieldsIgnored ==
    [][(pc \in UnusedNames /\ pc' = AgainLabel[pc])
       => (Returned(results') /\ results' = results)]_vars

\* Ten panels, called again with another night rate, after the other unused
\* fields were changed as well.
C16_Witness ==
    /\ pc = AgainLabel["night_rate"]
    /\ night_rate = Dec(500)
    /\ annual_usage = 20000
    /\ has_ev = "Yes"
    /\ hot_water_system = "Heat pump"
    /\ home_type_raw = "Detached"
    /\ num_panels = 10
    /\ Returned(results)
    /\ FLess(Zero, results.payback_years)

(***************************************************************************)
(* Properties of the results section (checked under Spec).                 *)
(***************************************************************************)
ZeroYears == [whole |-> 0, tenth |-> 0, unit |-> "years"]

\* C17 as stated: whenever the calculation returns a total annual benefit that
\* is not positive (payback 0), the results section shows neither a payback of
\* zero years nor the assessment of an excellent payback period.
C17_Original ==
    (Returned(results) /\ FCmp(results.total_annual_value, Zero) <= 0)
        => /\ metric_col4 # ZeroYears
           /\ summary_payback # ZeroYears
           /\ recommendations # "Excellent payback period!"

\* Calculate pressed without a home type: no benefit, "0.0 years", "Excellent".
C17_Witness ==
    /\ Returned(results)
    /\ results.total_annual_value = Zero
    /\ results.payback_years = Zero
    /\ metric_col4 = ZeroYears
    /\ summary_payback = ZeroYears
    /\ recommendations = "Excellent payback period!"

\* What the results section does with every result: the payback is shown as
\* years, to one place, and assessed by comparing it with 7 and 10.
C17_PaybackShownAsYears ==
    Returned(results) =>
        /\ metric_col4.unit = "years"
        /\ (metric_col4 = ZeroYears) =>
              FCmp(results.payback_years, Dec(5)) <= 0
        /\ (results.payback_years = Zero) =>
              recommendations = "Excellent payback period!"

\* C18: in every result the form can produce with a positive regional yield,
\* payback_years is 0 exactly when the panel count is 0, which is exactly when
\* no home type is selected; then annual generation and total annual benefit
\* are 0 and install_cost is FIXED_COST, plus BATTERY_COST with a battery; with
\* a home type selected the panel count is in 4..24 and total annual benefit
\* and payback_years are both above 0.
C18_ZeroPaybackWithoutHomeType ==
    (Returned(results) /\ regional_yield > 0) =>
        /\ (results.payback_years = Zero) <=> (num_panels = 0)
        /\ (num_panels = 0) <=> (home_type_raw = "Select your home type")
        /\ (num_panels = 0) =>
              /\ results.annual_generation = Zero
              /\ results.total_annual_value = Zero
              /\ results.install_cost =
                     FIXED_COST + (IF has_battery = "Yes" THEN BATTERY_COST ELSE 0)
        /\ (home_type_raw # "Select your home type") =>
              /\ num_panels \in 4..24
              /\ FCmp(results.total_annual_value, Zero) > 0
              /\ FCmp(results.payback_years, Zero) > 0

\* Calculate pressed with a battery and no home type: 6500 pounds, no benefit.
C18_Witness ==
    /\ Returned(results)
    /\ regional_yield > 0
    /\ home_type_raw = "Select your home type"
    /\ has_battery = "Yes"
    /\ num_panels = 0
    /\ results.install_cost = 6500
    /\ results.annual_generation = Zero
    /\ results.payback_years = Zero

\* Calculate pressed with a home type: a benefit and a payback above 0.
C18_WitnessHomeType ==
    /\ Returned(results)
    /\ home_type_raw = "Detached"
    /\ num_panels = 24
    /\ day_rate = Dec(1000)
    /\ FCmp(results.total_annual_value, Zero) > 0
    /\ FCmp(results.payback_years, Zero) > 0
====
